---- MODULE Spec2Model ----
(***************************************************************************)
(* The granular-synthesis engine (audio/granulator_engine.py) as a state   *)
(* machine.  Three threads use one engine: the real-time audio thread      *)
(* calls generate_audio_buffer, the control thread calls the setters and   *)
(* set_audio_source, the viewer thread calls get_current_loop_region.      *)
(* The engine's lock is a threading.Lock: it is not re-entrant.            *)
(*                                                                         *)
(* Sample values are integers; a windowed grain sample is the source       *)
(* sample times the Hann coefficient in thousandths.  A returned buffer is *)
(* the accumulator together with the peak it is divided by.                *)
(***************************************************************************)
EXTENDS Integers, Sequences, FiniteSets, TLC

\* Largest num_frames a buffer request asks for.
MaxFrames == 1

DEFAULT_SAMPLE_RATE == 44100
DEFAULT_GRAIN_DENSITY == 10

None == "None"
Audio == "audio"
Ctl == "ctl"
Gui == "gui"
Threads == {Audio, Ctl, Gui}
Free == "free"

\* The sample arrays handed to the engine, by name; "E" is a zero-length
\* array, "L" an array of 50 samples, "S" a single sample, "P" an array with
\* a loud and a quiet sample next to each other.
SourceData(id) ==
    CASE id = "A" -> <<3, -2, 1, 2>>
      [] id = "B" -> <<1, 2, -3>>
      [] id = "E" -> <<>>
      [] id = "L" -> [i \in 1..50 |-> (i % 5) - 2]
      [] id = "S" -> <<2>>
      [] id = "P" -> <<1, 50000, 44741, 1>>
      [] OTHER -> <<>>

\* The (audio_data, sample_rate) pairs the control thread installs.
SourceArgs ==
    { <<None, 8>>, <<"E", 8>>, <<"A", 8>>, <<"B", 8>>, <<"A", 0>>, <<"A", -4>>,
      <<"L", 8>> }

GrainLengthArgs == {-5, 0, 50, 150}
DensityArgs == {-3, 0, 1, 10}
StartPositionArgs == {-5, 58, 150}
PitchArgs == {0, 7}
FrameArgs == 0..MaxFrames

VARIABLES
    audio_data,                       \* self._audio_data (an array name or None)
    sample_rate,                      \* self._sample_rate
    total_audio_samples,              \* self._total_audio_samples
    grain_length_percentage,          \* self._grain_length_percentage
    grain_density,                    \* self._grain_density
    pitch_shift_semitones,            \* self._pitch_shift_semitones
    current_loop_playhead_position,   \* self._current_loop_playhead_position
    start_position_percentage,        \* self._start_position_percentage
    start_position_sample,            \* self._start_position_sample
    active_grains,                    \* self._active_grains
    lock,                             \* holder of self._lock, or Free
    pc,                               \* each thread's position
    num_frames,                       \* generate_audio_buffer's argument
    region,                           \* generate_audio_buffer's (loop_start, loop_end)
    sas_arg,                          \* set_audio_source's arguments
    view,                             \* what a call in progress has seen of the source
    out,                              \* the call that returned in the last step
    panel,                            \* the ControlsPanel: its knobs and signals
    player,                           \* the AudioPlayer's fields and emitted signals
    callback                          \* the stream callback in progress

engine == <<audio_data, sample_rate, total_audio_samples, grain_length_percentage,
            grain_density, pitch_shift_semitones, current_loop_playhead_position,
            start_position_percentage, start_position_sample, active_grains>>

vars == <<audio_data, sample_rate, total_audio_samples, grain_length_percentage,
          grain_density, pitch_shift_semitones, current_loop_playhead_position,
          start_position_percentage, start_position_sample, active_grains,
          lock, pc, num_frames, region, sas_arg, view, out,
          panel, player, callback>>

\* What the engine's own methods never touch.
peripherals == <<panel, player, callback>>

----------------------------------------------------------------------------
\* Arithmetic helpers

Max(a, b) == IF a >= b THEN a ELSE b
Min(a, b) == IF a <= b THEN a ELSE b
Abs(a) == IF a >= 0 THEN a ELSE -a

\* Python's int(a / b) for integers a, b with b # 0: the quotient truncated
\* towards zero.
TruncDiv(a, b) ==
    IF (a >= 0) = (b > 0) THEN Abs(a) \div Abs(b) ELSE -(Abs(a) \div Abs(b))

\* The (total, percentage) pairs, total up to 100 and percentage in 0..100,
\* for which the double product total * (percentage / 100.0) is just below
\* the integer total * percentage / 100 (50 * 0.58 = 28.999999999999996).
PercentShortfall ==
    { <<50, 58>>, <<90, 70>>, <<100, 29>>, <<100, 57>>, <<100, 58>> }

\* int(total * (percentage / 100.0)), in double arithmetic, for total up to
\* 100 and percentage in 0..100: the truncated quotient, or one less where the
\* product falls short of it.
PercentOfSamples(total, percentage) ==
    IF <<total, percentage>> \in PercentShortfall
    THEN TruncDiv(total * percentage, 100) - 1
    ELSE TruncDiv(total * percentage, 100)

\* len(audio_data) if audio_data is not None else 0
LengthOf(data) == IF data = None THEN 0 ELSE Len(SourceData(data))

\* The three operands of the test that opens generate_audio_buffer (line 182)
\* and get_current_loop_region (line 137).
AudioAbsent(data) == data = None
RateNegative(rate) == rate < 0
RateInvalid(rate) == rate <= 0
NoSamples(total) == total = 0

\* A source is loaded: an array is present, it has samples, and the sample
\* rate is positive.
SourceLoaded(data, rate, total) == data # None /\ rate > 0 /\ total > 0
Loaded == SourceLoaded(audio_data, sample_rate, total_audio_samples)

----------------------------------------------------------------------------
\* Events: the generate_audio_buffer or get_current_loop_region call that
\* returned in the last step.

NoOut == [op |-> "none", kind |-> "none", arg |-> 0, val |-> <<>>, den |-> 1,
          view |-> "none", loaded |-> FALSE]

Returned(op, kind, arg, val, den, v, ld) ==
    [op |-> op, kind |-> kind, arg |-> arg, val |-> val, den |-> den,
     view |-> v, loaded |-> ld]

Zeros(n) == [i \in 1..n |-> 0]

LockNeverHeld(holder) == TRUE

\* "with self._lock" is entered only when no thread holds the lock.
LockFree(holder) == holder = Free
NoRegion == <<>>
NoArg == <<>>

----------------------------------------------------------------------------
\* The objects MainWindow builds around the engine.

\* No ControlsPanel yet: MainWindow builds it after the engine and the player.
NoPanel == [stage |-> "none", start_position |-> 0, grain_size |-> 0,
            grain_density |-> 0]

\* AudioPlayer.__init__: no stream, not playing, position 0, nothing emitted.
NewPlayer == [is_playing |-> FALSE, position |-> 0, stream |-> "none",
              signals |-> <<>>]

NoBuffer == <<>>

\* No stream callback is running.  The field seen keeps, for the properties
\* and while the callback runs, the array the engine held when it began.
NoCallback == [active |-> FALSE, frame_count |-> 0, data |-> NoBuffer,
               result |-> "none", seen |-> None]

----------------------------------------------------------------------------
Init ==
    /\ audio_data = None
    /\ sample_rate = DEFAULT_SAMPLE_RATE
    /\ total_audio_samples = 0
    /\ grain_length_percentage = 50
    /\ grain_density = DEFAULT_GRAIN_DENSITY
    /\ pitch_shift_semitones = 0
    /\ current_loop_playhead_position = 0
    /\ start_position_percentage = 0
    /\ start_position_sample = 0
    /\ active_grains = <<>>
    /\ lock = Free
    /\ pc = [t \in Threads |-> "idle"]
    /\ num_frames = 0
    /\ region = NoRegion
    /\ sas_arg = NoArg
    /\ view = [t \in {Audio, Gui} |-> "none"]
    /\ out = NoOut
    /\ panel = NoPanel
    /\ player = NewPlayer
    /\ callback = NoCallback

----------------------------------------------------------------------------
\* The control thread: set_audio_source and the parameter setters.

\* Positions of a thread that is in no engine method: idle, or in the
\* AudioPlayer's own code.
OutsideEngine ==
    {"idle", "play_open", "stop_close", "reset_close", "reset_pos",
     "cb_add", "cb_chk_data", "cb_chk_rate", "cb_len", "cb_return"}

\* A call in progress on thread t has seen the source change under it.
Disturbed(t) == IF pc[t] \in OutsideEngine THEN view[t] ELSE "mixed"
DisturbedView == [t \in {Audio, Gui} |-> Disturbed(t)]

\* _calculate_start_position_sample
CalculateStartPositionSample(data, total, percentage) ==
    IF data # None /\ total > 0
    THEN Max(0, Min(PercentOfSamples(total, percentage), total - 1))
    ELSE 0

\* set_audio_source, line 67-68: take the lock, store the array.
SetAudioSourceData(arg) ==
    /\ pc[Ctl] = "idle"
    /\ LockFree(lock)
    /\ lock' = Ctl
    /\ audio_data' = arg[1]
    /\ sas_arg' = arg
    /\ pc' = [pc EXCEPT ![Ctl] = "sas_rate"]
    /\ view' = DisturbedView
    /\ out' = NoOut
    /\ UNCHANGED <<sample_rate, total_audio_samples, grain_length_percentage,
                   grain_density, pitch_shift_semitones,
                   current_loop_playhead_position, start_position_percentage,
                   start_position_sample, active_grains, num_frames, region>>
    /\ UNCHANGED peripherals

\* set_audio_source, line 69: store the sample rate.
SetAudioSourceRate ==
    /\ pc[Ctl] = "sas_rate"
    /\ sample_rate' = sas_arg[2]
    /\ pc' = [pc EXCEPT ![Ctl] = "sas_total"]
    /\ view' = DisturbedView
    /\ out' = NoOut
    /\ UNCHANGED <<audio_data, total_audio_samples, grain_length_percentage,
                   grain_density, pitch_shift_semitones,
                   current_loop_playhead_position, start_position_percentage,
                   start_position_sample, active_grains, lock, num_frames,
                   region, sas_arg>>
    /\ UNCHANGED peripherals

\* set_audio_source, line 70: store the sample count.
SetAudioSourceTotal ==
    /\ pc[Ctl] = "sas_total"
    /\ total_audio_samples' = LengthOf(audio_data)
    /\ pc' = [pc EXCEPT ![Ctl] = "sas_reset"]
    /\ view' = DisturbedView
    /\ out' = NoOut
    /\ UNCHANGED <<audio_data, sample_rate, grain_length_percentage,
                   grain_density, pitch_shift_semitones,
                   current_loop_playhead_position, start_position_percentage,
                   start_position_sample, active_grains, lock, num_frames,
                   region, sas_arg>>
    /\ UNCHANGED peripherals

KeptGrains(grains) == grains

\* What set_audio_source leaves in the pool (line 72).
ClearedGrains(grains) == <<>>

\* What set_audio_source leaves in the playhead (line 76).
ResetPlayhead(playhead) == 0

\* set_audio_source, lines 72-82: clear the pool, recompute the start sample,
\* reset the playhead, release the lock and return.
SetAudioSourceReset ==
    /\ pc[Ctl] = "sas_reset"
    /\ active_grains' = ClearedGrains(active_grains)
    /\ start_position_sample' =
           CalculateStartPositionSample(audio_data, total_audio_samples,
                                        start_position_percentage)
    /\ current_loop_playhead_position' = ResetPlayhead(current_loop_playhead_position)
    /\ lock' = Free
    /\ pc' = [pc EXCEPT ![Ctl] = "idle"]
    /\ sas_arg' = NoArg
    /\ out' = NoOut
    /\ UNCHANGED <<audio_data, sample_rate, total_audio_samples,
                   grain_length_percentage, grain_density, pitch_shift_semitones,
                   start_position_percentage, num_frames, region, view>>
    /\ UNCHANGED peripherals

UnclampedPercentage(percentage) == percentage

\* max(1, min(100, percentage))
ClampGrainLength(percentage) == Max(1, Min(100, percentage))

\* max(1, density)
ClampDensity(density) == Max(1, density)

\* max(0, min(100, percentage))
ClampStartPosition(percentage) == Max(0, Min(100, percentage))

\* set_grain_length_percentage: one critical section.
SetGrainLengthPercentageLocked(percentage) ==
    /\ LockFree(lock)
    /\ grain_length_percentage' = ClampGrainLength(percentage)
    /\ out' = NoOut
    /\ UNCHANGED <<audio_data, sample_rate, total_audio_samples, grain_density,
                   pitch_shift_semitones, current_loop_playhead_position,
                   start_position_percentage, start_position_sample,
                   active_grains, lock, pc, num_frames, region, sas_arg, view>>

\* set_grain_length_percentage called by the control thread.
SetGrainLengthPercentage(percentage) ==
    /\ pc[Ctl] = "idle"
    /\ SetGrainLengthPercentageLocked(percentage)
    /\ UNCHANGED peripherals

SetGrainDensityAndRestart(density) ==
    /\ pc[Ctl] = "idle"
    /\ LockFree(lock)
    /\ grain_density' = ClampDensity(density)
    /\ current_loop_playhead_position' = 0
    /\ out' = NoOut
    /\ UNCHANGED <<audio_data, sample_rate, total_audio_samples,
                   grain_length_percentage, pitch_shift_semitones,
                   start_position_percentage, start_position_sample,
                   active_grains, lock, pc, num_frames, region, sas_arg, view>>
    /\ UNCHANGED peripherals

\* set_grain_density: one critical section.
SetGrainDensityLocked(density) ==
    /\ LockFree(lock)
    /\ grain_density' = ClampDensity(density)
    /\ out' = NoOut
    /\ UNCHANGED <<audio_data, sample_rate, total_audio_samples,
                   grain_length_percentage, pitch_shift_semitones,
                   current_loop_playhead_position, start_position_percentage,
                   start_position_sample, active_grains, lock, pc, num_frames,
                   region, sas_arg, view>>

\* set_grain_density called by the control thread.
SetGrainDensity(density) ==
    /\ pc[Ctl] = "idle"
    /\ SetGrainDensityLocked(density)
    /\ UNCHANGED peripherals

\* set_pitch_shift: one critical section.
SetPitchShift(semitones) ==
    /\ pc[Ctl] = "idle"
    /\ LockFree(lock)
    /\ pitch_shift_semitones' = semitones
    /\ out' = NoOut
    /\ UNCHANGED <<audio_data, sample_rate, total_audio_samples,
                   grain_length_percentage, grain_density,
                   current_loop_playhead_position, start_position_percentage,
                   start_position_sample, active_grains, lock, pc, num_frames,
                   region, sas_arg, view>>
    /\ UNCHANGED peripherals

PlayheadMovedOn(playhead) == playhead + 1

KeptPlayhead(playhead) == playhead

\* What set_start_position_percentage leaves in the playhead (line 115).
RestartedPlayhead(playhead) == 0

\* set_start_position_percentage: one critical section.
SetStartPositionPercentageLocked(percentage) ==
    /\ LockFree(lock)
    /\ start_position_percentage' = ClampStartPosition(percentage)
    /\ start_position_sample' =
           CalculateStartPositionSample(audio_data, total_audio_samples,
                                        start_position_percentage')
    /\ current_loop_playhead_position' = RestartedPlayhead(current_loop_playhead_position)
    /\ out' = NoOut
    /\ UNCHANGED <<audio_data, sample_rate, total_audio_samples,
                   grain_length_percentage, grain_density, pitch_shift_semitones,
                   active_grains, lock, pc, num_frames, region, sas_arg, view>>

\* set_start_position_percentage called by the control thread.
SetStartPositionPercentage(percentage) ==
    /\ pc[Ctl] = "idle"
    /\ SetStartPositionPercentageLocked(percentage)
    /\ UNCHANGED peripherals

----------------------------------------------------------------------------
\* get_current_loop_region, run by the viewer thread and, inside
\* generate_audio_buffer (line 196), by the audio thread.

\* Lines 141-155: (loop_start_sample, loop_end_sample).
LoopRegion(start_sample, total, percentage) ==
    LET computed == PercentOfSamples(total, percentage)
        loop_length_samples == IF computed <= 0 THEN 1 ELSE computed
    IN  <<start_sample, Min(start_sample + loop_length_samples, total)>>

\* The source as a call sees it when it starts.
ViewAtCall ==
    IF pc[Ctl] \notin OutsideEngine THEN "mixed"
    ELSE IF Loaded THEN "loaded" ELSE "unloaded"

GetRegionCall ==
    /\ pc[Gui] = "idle"
    /\ pc' = [pc EXCEPT ![Gui] = "glr_chk_data"]
    /\ view' = [view EXCEPT ![Gui] = ViewAtCall]
    /\ out' = NoOut
    /\ UNCHANGED <<engine, lock, num_frames, region, sas_arg>>
    /\ UNCHANGED peripherals

\* The call returns val: to the viewer's caller, or into line 196.
GetRegionReturn(t, val) ==
    IF t = Audio
    THEN /\ region' = val
         /\ pc' = [pc EXCEPT ![t] = "gen_schedule"]
         /\ out' = NoOut
         /\ view' = view
    ELSE /\ region' = region
         /\ pc' = [pc EXCEPT ![t] = "idle"]
         /\ out' = Returned("get_current_loop_region", "ok", 0, val, 1, view[t], Loaded)
         /\ view' = [view EXCEPT ![t] = "none"]

GetRegionNext(t, label) ==
    /\ pc' = [pc EXCEPT ![t] = label]
    /\ out' = NoOut
    /\ UNCHANGED <<region, view>>

\* Line 137, first operand: self._audio_data is None
GetRegionCheckData(t) ==
    /\ pc[t] = "glr_chk_data"
    /\ IF AudioAbsent(audio_data)
       THEN GetRegionReturn(t, <<0, 0>>)
       ELSE GetRegionNext(t, "glr_chk_rate")
    /\ UNCHANGED <<engine, lock, num_frames, sas_arg>>
    /\ UNCHANGED peripherals

\* Line 137, second operand: self._sample_rate <= 0
GetRegionCheckRate(t) ==
    /\ pc[t] = "glr_chk_rate"
    /\ IF RateInvalid(sample_rate)
       THEN GetRegionReturn(t, <<0, 0>>)
       ELSE GetRegionNext(t, "glr_chk_total")
    /\ UNCHANGED <<engine, lock, num_frames, sas_arg>>
    /\ UNCHANGED peripherals

\* Line 137, third operand: self._total_audio_samples == 0
GetRegionCheckTotal(t) ==
    /\ pc[t] = "glr_chk_total"
    /\ IF NoSamples(total_audio_samples)
       THEN GetRegionReturn(t, <<0, 0>>)
       ELSE GetRegionNext(t, "glr_acquire")
    /\ UNCHANGED <<engine, lock, num_frames, sas_arg>>
    /\ UNCHANGED peripherals

\* Lines 140-155: the critical section.  The lock is taken only when free,
\* whoever asks for it.
GetRegionLocked(t) ==
    /\ pc[t] = "glr_acquire"
    /\ LockFree(lock)
    /\ GetRegionReturn(t, LoopRegion(start_position_sample, total_audio_samples,
                                     grain_length_percentage))
    /\ UNCHANGED <<engine, lock, num_frames, sas_arg>>
    /\ UNCHANGED peripherals

----------------------------------------------------------------------------
\* Grains

\* scipy.signal.windows.hann(L), in thousandths (L = 6 rounded).
HannWindow(L) ==
    CASE L = 1 -> <<1000>>
      [] L = 2 -> <<0, 0>>
      [] L = 3 -> <<0, 1000, 0>>
      [] L = 4 -> <<0, 750, 750, 0>>
      [] L = 5 -> <<0, 500, 1000, 500, 0>>
      [] L = 6 -> <<0, 345, 905, 905, 345, 0>>
      [] L = 7 -> <<0, 250, 750, 1000, 750, 250, 0>>
      [] OTHER -> [k \in 1..L |-> 0]

RawGrainLength(total, percentage) == PercentOfSamples(total, percentage)

\* Lines 191-193: grain_length_samples.
GrainLengthSamples(total, percentage) ==
    LET computed == PercentOfSamples(total, percentage)
    IN  IF computed <= 0 THEN 1 ELSE computed

\* Lines 197-198: loop_duration_samples.
LoopDuration(reg) == IF reg[2] - reg[1] <= 0 THEN 1 ELSE reg[2] - reg[1]

\* The (density, frames, rate) triples, among the densities 1, 10, 98, the
\* rates 8, 49, -4, 44100 and up to 3 frames, for which the double product
\* density * (frames / rate) is just below the integer density * frames / rate
\* (98 * (1 / 49) = 1.9999999999999998).
DensityShortfall == { <<98, 1, 49>>, <<98, 2, 49>> }

AlwaysOneGrain(density, frames, rate) == 1

\* Lines 201-206: grains_to_trigger, for a sample rate other than 0.  Line 204
\* is int(density * (frames / rate)) in double arithmetic: the truncated
\* quotient, or one less where the product falls short of it.
GrainsToTrigger(density, frames, rate) ==
    IF density <= 0
    THEN 0
    ELSE LET computed == IF <<density, frames, rate>> \in DensityShortfall
                         THEN TruncDiv(density * frames, rate) - 1
                         ELSE TruncDiv(density * frames, rate)
         IN  IF computed = 0 /\ rate <= frames * density THEN 1 ELSE computed

UnwrappedPlayhead(playhead, frames, duration) == playhead + frames

\* Lines 210-216: the playhead after the request.
AdvancePlayhead(playhead, frames, duration) ==
    IF duration > 0 THEN (playhead + frames) % duration ELSE 0

WholeGrainRange(grain_length_samples) == Max(0, grain_length_samples)

\* Lines 225-227: deviation_range_samples.
DeviationRange(grain_length_samples) == Max(0, grain_length_samples \div 2)

ClipIndex(i, n) == Max(0, Min(i, n - 1))

\* numpy.take(..., mode='wrap'): the index wrapped into 0..n-1.
WrapIndex(i, n) == i % n

\* Lines 244-267: one grain of the array named data, read from start_idx on.
ExtractGrain(data, start_idx, grain_length_samples) ==
    LET samples == SourceData(data)
        window == HannWindow(grain_length_samples)
    IN  [data |-> [k \in 1..grain_length_samples |->
                      samples[WrapIndex(start_idx + k - 1, Len(samples)) + 1] * window[k]],
         current_sample |-> 0,
         total_samples |-> grain_length_samples,
         src |-> data,
         start |-> start_idx]

Resampled(grain, semitones) ==
    IF semitones = 0 THEN grain
    ELSE [grain EXCEPT !.data = [k \in 1..((Len(@) + 1) \div 2) |-> @[2 * k - 1]],
                       !.total_samples = (@ + 1) \div 2]

\* Lines 255-260: the pitch shift of a windowed grain is commented out; the
\* grain appended at lines 263-267 is the windowed grain.
PitchShifted(grain, semitones) == grain

\* What lines 248-253 raise instead of giving a grain.
ExtractFault(data) ==
    IF data = None THEN "TypeError"
    ELSE IF Len(SourceData(data)) = 0 THEN "IndexError"
    ELSE "none"

WholeRemainder(grain, frames) == grain.total_samples - grain.current_sample

\* Lines 278-279: remaining_samples and samples_to_add of a grain.
SamplesToAdd(grain, frames) == Min(frames, grain.total_samples - grain.current_sample)

CountedDown(grain, frames) ==
    [grain EXCEPT !.total_samples = @ - SamplesToAdd(grain, frames)]

\* Lines 281-293: the grain after mixing.
Advance(grain, frames) ==
    IF SamplesToAdd(grain, frames) > 0
    THEN [grain EXCEPT !.current_sample = @ + SamplesToAdd(grain, frames)]
    ELSE grain

\* Lines 282-291: what the grain adds at position i of the buffer.
Contribution(grain, frames, i) ==
    IF i <= SamplesToAdd(grain, frames) THEN grain.data[grain.current_sample + i] ELSE 0

\* The spacing of the float32 values around a magnitude a >= 0.
RECURSIVE Ulp(_, _)
Ulp(a, q) == IF a < 16777216 * q THEN q ELSE Ulp(a, 2 * q)

\* Lines 185, 291: output_buffer is a float32 array, and "+=" stores every
\* sum rounded to float32, 24 significant bits, ties to even.  A number x of
\* the model is the sample value x * 2^-k for one fixed k, so rounding x is
\* rounding the sample; the grain data are float64 and carry x exactly.
Float32(x) ==
    LET a == Abs(x)
        q == Ulp(a, 1)
        lo == (a \div q) * q
        rem == a - lo
        r == IF 2 * rem < q THEN lo
             ELSE IF 2 * rem > q THEN lo + q
             ELSE IF (lo \div q) % 2 = 0 THEN lo ELSE lo + q
    IN  IF x >= 0 THEN r ELSE -r

\* Lines 273-291: position i of the accumulator after the first k grains.
RECURSIVE SumAt(_, _, _, _)
SumAt(grains, frames, i, k) ==
    IF k = 0 THEN 0
    ELSE Float32(SumAt(grains, frames, i, k - 1) + Contribution(grains[k], frames, i))

StartedBefore(grain) == grain.current_sample > 0

AccumulateEarlier(grains, frames) ==
    [i \in 1..frames |->
        SumAt(SelectSeq(grains, StartedBefore), frames, i,
              Len(SelectSeq(grains, StartedBefore)))]

\* Lines 185, 273-291: the accumulator after every active grain was mixed.
Accumulate(grains, frames) ==
    [i \in 1..frames |-> SumAt(grains, frames, i, Len(grains))]

NeverFinished(grain) == TRUE

KeptOneMoreCall(grain) == grain.current_sample <= grain.total_samples

\* Lines 295-299: the grains kept.
Unfinished(grain) == grain.current_sample < grain.total_samples

Survivors(grains, frames) ==
    SelectSeq([k \in 1..Len(grains) |-> Advance(grains[k], frames)], Unfinished)

RECURSIVE PeakOf(_, _)
PeakOf(acc, k) == IF k = 0 THEN 0 ELSE Max(PeakOf(acc, k - 1), Abs(acc[k]))

\* Line 303: np.max(np.abs(output_buffer)), for a buffer that is not empty.
Peak(acc) == PeakOf(acc, Len(acc))

AnyPeak(peak) == TRUE

\* Line 304: max_val > 1.0e-9; a peak in thousandths of a sample unit is
\* above it exactly when it is not 0.
AboveEpsilon(peak) == peak > 0

----------------------------------------------------------------------------
\* The audio thread: generate_audio_buffer(num_frames).

GenerateEnter(n) ==
    /\ pc' = [pc EXCEPT ![Audio] = "gen_chk_data"]
    /\ num_frames' = n
    /\ view' = [view EXCEPT ![Audio] = ViewAtCall]
    /\ out' = NoOut
    /\ UNCHANGED <<engine, lock, region, sas_arg>>

GenerateCall(n) ==
    /\ pc[Audio] = "idle"
    /\ GenerateEnter(n)
    /\ UNCHANGED peripherals

\* Where generate_audio_buffer returns to: its caller, or line 54 of the
\* stream callback, which goes on to line 59 or lets the exception through.
ReturnLabel(cb, kind) ==
    IF cb.active /\ kind = "buffer" THEN "cb_add" ELSE "idle"

\* Line 54: the callback receives the buffer, or ends with the exception.
Delivered(cb, kind, val, den) ==
    IF ~cb.active THEN cb
    ELSE IF kind = "buffer"
         THEN [cb EXCEPT !.data = <<val, den>>]
         ELSE [cb EXCEPT !.active = FALSE, !.data = NoBuffer, !.result = kind,
                         !.seen = None]

\* The call ends: it returns a buffer (val over den) or raises (kind).
GenerateEnd(kind, val, den) ==
    /\ pc' = [pc EXCEPT ![Audio] = ReturnLabel(callback, kind)]
    /\ callback' = Delivered(callback, kind, val, den)
    /\ out' = Returned("generate_audio_buffer", kind, num_frames, val, den,
                       view[Audio], Loaded)
    /\ view' = [view EXCEPT ![Audio] = "none"]
    /\ num_frames' = 0
    /\ region' = NoRegion

GenerateNext(label) ==
    /\ pc' = [pc EXCEPT ![Audio] = label]
    /\ out' = NoOut
    /\ UNCHANGED <<num_frames, region, view, callback>>

\* Line 183: np.zeros(num_frames)
SilentBuffer(frames) == Zeros(frames)

\* Line 182, first operand: self._audio_data is None
GenerateCheckData ==
    /\ pc[Audio] = "gen_chk_data"
    /\ IF AudioAbsent(audio_data)
       THEN GenerateEnd("buffer", SilentBuffer(num_frames), 1)
       ELSE GenerateNext("gen_chk_rate")
    /\ UNCHANGED <<engine, lock, sas_arg>>
    /\ UNCHANGED <<panel, player>>

\* Line 182, second operand: self._sample_rate <= 0
GenerateCheckRate ==
    /\ pc[Audio] = "gen_chk_rate"
    /\ IF RateInvalid(sample_rate)
       THEN GenerateEnd("buffer", SilentBuffer(num_frames), 1)
       ELSE GenerateNext("gen_chk_total")
    /\ UNCHANGED <<engine, lock, sas_arg>>
    /\ UNCHANGED <<panel, player>>

\* Line 182, third operand: self._total_audio_samples == 0
GenerateCheckTotal ==
    /\ pc[Audio] = "gen_chk_total"
    /\ IF NoSamples(total_audio_samples)
       THEN GenerateEnd("buffer", SilentBuffer(num_frames), 1)
       ELSE GenerateNext("gen_acquire")
    /\ UNCHANGED <<engine, lock, sas_arg>>
    /\ UNCHANGED <<panel, player>>

\* Lines 187-196: take the lock, then call get_current_loop_region.
GenerateAcquire ==
    /\ pc[Audio] = "gen_acquire"
    /\ LockFree(lock)
    /\ lock' = Audio
    /\ GenerateNext("glr_chk_data")
    /\ UNCHANGED <<engine, sas_arg>>
    /\ UNCHANGED <<panel, player>>

\* Lines 197-267, the lock held: the grain count, the playhead, the new
\* grains.  An exception leaves the with block, which releases the lock.
GenerateSchedule ==
    /\ pc[Audio] = "gen_schedule"
    /\ LET grain_length_samples ==
               GrainLengthSamples(total_audio_samples, grain_length_percentage)
           loop_duration_samples == LoopDuration(region)
           playhead == AdvancePlayhead(current_loop_playhead_position, num_frames,
                                       loop_duration_samples)
           range == DeviationRange(grain_length_samples)
       IN  IF grain_density > 0 /\ sample_rate = 0
           THEN \* line 204: num_frames / self._sample_rate
                /\ GenerateEnd("ZeroDivisionError", <<>>, 1)
                /\ lock' = Free
                /\ UNCHANGED engine
           ELSE LET grains_to_trigger ==
                        GrainsToTrigger(grain_density, num_frames, sample_rate)
                IN  /\ current_loop_playhead_position' = playhead
                    /\ IF grains_to_trigger > 0 /\ ExtractFault(audio_data) # "none"
                       THEN /\ GenerateEnd(ExtractFault(audio_data), <<>>, 1)
                            /\ lock' = Free
                            /\ UNCHANGED active_grains
                       ELSE /\ \E deviation \in [1..grains_to_trigger -> (-range)..range] :
                                  active_grains' = active_grains \o
                                      [k \in 1..grains_to_trigger |->
                                          PitchShifted(
                                              ExtractGrain(audio_data,
                                                           region[1] + playhead + deviation[k],
                                                           grain_length_samples),
                                              pitch_shift_semitones)]
                            /\ GenerateNext("gen_mix")
                            /\ UNCHANGED lock
                    /\ UNCHANGED <<audio_data, sample_rate, total_audio_samples,
                                   grain_length_percentage, grain_density,
                                   pitch_shift_semitones, start_position_percentage,
                                   start_position_sample>>
    /\ UNCHANGED sas_arg
    /\ UNCHANGED <<panel, player>>

\* Lines 269-309, the lock held: mix the active grains, keep the unfinished
\* ones, normalize, release the lock and return.
GenerateMix ==
    /\ pc[Audio] = "gen_mix"
    /\ active_grains' = Survivors(active_grains, num_frames)
    /\ LET acc == Accumulate(active_grains, num_frames)
       IN  IF num_frames = 0
           THEN \* line 303: np.max of an empty array
                GenerateEnd("ValueError", <<>>, 1)
           ELSE IF AboveEpsilon(Peak(acc))
                THEN GenerateEnd("buffer", acc, Peak(acc))
                ELSE GenerateEnd("buffer", Zeros(num_frames), 1)
    /\ lock' = Free
    /\ UNCHANGED <<audio_data, sample_rate, total_audio_samples,
                   grain_length_percentage, grain_density, pitch_shift_semitones,
                   current_loop_playhead_position, start_position_percentage,
                   start_position_sample, sas_arg>>
    /\ UNCHANGED <<panel, player>>

----------------------------------------------------------------------------
Next ==
    \/ \E arg \in SourceArgs : SetAudioSourceData(arg)
    \/ SetAudioSourceRate
    \/ SetAudioSourceTotal
    \/ SetAudioSourceReset
    \/ \E percentage \in GrainLengthArgs : SetGrainLengthPercentage(percentage)
    \/ \E density \in DensityArgs : SetGrainDensity(density)
    \/ \E semitones \in PitchArgs : SetPitchShift(semitones)
    \/ \E percentage \in StartPositionArgs : SetStartPositionPercentage(percentage)
    \/ GetRegionCall
    \/ \E t \in {Audio, Gui} : GetRegionCheckData(t)
    \/ \E t \in {Audio, Gui} : GetRegionCheckRate(t)
    \/ \E t \in {Audio, Gui} : GetRegionCheckTotal(t)
    \/ \E t \in {Audio, Gui} : GetRegionLocked(t)
    \/ \E n \in FrameArgs : GenerateCall(n)
    \/ GenerateCheckData
    \/ GenerateCheckRate
    \/ GenerateCheckTotal
    \/ GenerateAcquire
    \/ GenerateSchedule
    \/ GenerateMix

Spec == Init /\ [][Next]_vars

----------------------------------------------------------------------------
\* The body of generate_audio_buffer, lines 197-309, as a function of the
\* engine state it is given: BodySpec applies it to drawn engine states with a
\* source loaded, and again to its own results.  It starts where line 196
\* has delivered the loop region to the caller.

\* Largest number of grains in a drawn pool.
MaxInitGrains == 1

\* Largest num_frames asked of the body.
MaxBodyFrames == 2

\* The loaded sources whose grains the Hann table covers.
LoadedSources ==
    {a \in SourceArgs : SourceLoaded(a[1], a[2], LengthOf(a[1])) /\ a[1] \in {"A", "B"}}

GrainLengthValues == {ClampGrainLength(p) : p \in GrainLengthArgs} \cup {50}
DensityValues == {ClampDensity(d) : d \in DensityArgs} \cup {DEFAULT_GRAIN_DENSITY}
StartPositionValues == {ClampStartPosition(p) : p \in StartPositionArgs} \cup {0}

\* A grain of the array named data as an earlier request left it.
PlayingGrains(data) ==
    { [ExtractGrain(data, 0, GrainLengthSamples(LengthOf(data), p))
          EXCEPT !.current_sample = c] :
        <<p, c>> \in { x \in GrainLengthValues \X (0..LengthOf(data)) :
                         x[2] < GrainLengthSamples(LengthOf(data), x[1]) } }

DrawnPools(data) ==
    UNION { [1..n -> PlayingGrains(data)] : n \in 0..MaxInitGrains }

\* The sources the body is applied to: the loaded ones, a slow one and one
\* whose grains need more than 24 bits.
BodySources == LoadedSources \cup { <<"S", 49>>, <<"P", 8>> }

\* The densities drawn at a sample rate: a high one at the slow rate only.
BodyDensities(rate) == IF rate = 49 THEN DensityValues \cup {98} ELSE DensityValues

BodyInit ==
    /\ \E a \in BodySources :
          /\ audio_data = a[1]
          /\ sample_rate = a[2]
          /\ total_audio_samples = LengthOf(a[1])
    /\ grain_length_percentage \in GrainLengthValues
    /\ grain_density \in BodyDensities(sample_rate)
    /\ pitch_shift_semitones = 0
    /\ start_position_percentage \in StartPositionValues
    /\ start_position_sample =
           CalculateStartPositionSample(audio_data, total_audio_samples,
                                        start_position_percentage)
    /\ current_loop_playhead_position \in 0..(total_audio_samples - 1)
    /\ active_grains \in DrawnPools(audio_data)
    /\ lock = Free
    /\ pc = [t \in Threads |-> "idle"]
    /\ num_frames = 0
    /\ region = NoRegion
    /\ sas_arg = NoArg
    /\ view = [t \in {Audio, Gui} |-> "none"]
    /\ out = NoOut
    /\ panel = NoPanel
    /\ player = NewPlayer
    /\ callback = NoCallback

\* Lines 181-196 for a loaded source, line 196 giving the region.  The body
\* is applied to pools no larger than the drawn ones.
BodyRequest(n) ==
    /\ pc[Audio] = "idle"
    /\ lock = Free
    /\ Len(active_grains) <= MaxInitGrains
    /\ lock' = Audio
    /\ num_frames' = n
    /\ region' = LoopRegion(start_position_sample, total_audio_samples,
                            grain_length_percentage)
    /\ pc' = [pc EXCEPT ![Audio] = "gen_schedule"]
    /\ view' = [view EXCEPT ![Audio] = "loaded"]
    /\ out' = NoOut
    /\ UNCHANGED <<engine, sas_arg>>
    /\ UNCHANGED peripherals

BodyNext ==
    \/ \E n \in 0..MaxBodyFrames : BodyRequest(n)
    \/ GenerateSchedule
    \/ GenerateMix
    \/ \E semitones \in PitchArgs : SetPitchShift(semitones)

BodySpec == BodyInit /\ [][BodyNext]_vars

----------------------------------------------------------------------------
\* The setters as functions of the engine's fields (e is the tuple engine):
\* the fields a setter call leaves.

AfterSetGrainLengthPercentage(e, percentage) ==
    [e EXCEPT ![4] = ClampGrainLength(percentage)]

AfterSetGrainDensity(e, density) == [e EXCEPT ![5] = ClampDensity(density)]

AfterSetPitchShift(e, semitones) == [e EXCEPT ![6] = semitones]

AfterSetStartPositionPercentage(e, percentage) ==
    [e EXCEPT ![8] = ClampStartPosition(percentage),
              ![9] = CalculateStartPositionSample(e[1], e[3],
                                                  ClampStartPosition(percentage)),
              ![7] = RestartedPlayhead(e[7])]

\* SetterSpec applies the setters to drawn engine states: a source loaded, the
\* parameters as constructed, the playhead and the pool as earlier requests
\* may have left them.
SetterInit ==
    /\ \E a \in LoadedSources :
          /\ audio_data = a[1]
          /\ sample_rate = a[2]
          /\ total_audio_samples = LengthOf(a[1])
    /\ grain_length_percentage = 50
    /\ grain_density = DEFAULT_GRAIN_DENSITY
    /\ pitch_shift_semitones = 0
    /\ start_position_percentage = 0
    /\ start_position_sample = 0
    /\ current_loop_playhead_position \in 0..(total_audio_samples - 1)
    /\ active_grains \in DrawnPools(audio_data)
    /\ lock = Free
    /\ pc = [t \in Threads |-> "idle"]
    /\ num_frames = 0
    /\ region = NoRegion
    /\ sas_arg = NoArg
    /\ view = [t \in {Audio, Gui} |-> "none"]
    /\ out = NoOut
    /\ panel = NoPanel
    /\ player = NewPlayer
    /\ callback = NoCallback

SetterNext ==
    \/ \E percentage \in GrainLengthArgs : SetGrainLengthPercentage(percentage)
    \/ \E density \in DensityArgs : SetGrainDensity(density)
    \/ \E semitones \in PitchArgs : SetPitchShift(semitones)
    \/ \E percentage \in StartPositionArgs : SetStartPositionPercentage(percentage)

SetterSpec == SetterInit /\ [][SetterNext]_vars

----------------------------------------------------------------------------
\* ChainSpec: requests and setter calls in sequence on an engine whose source
\* was just set, every request on the loaded source going through the body
\* (lines 197-309) as in BodySpec, with no bound on the pool.

\* Largest num_frames asked for in a chain of requests.
MaxChainFrames == 1

ChainInit ==
    /\ \E a \in LoadedSources :
          /\ audio_data = a[1]
          /\ sample_rate = a[2]
          /\ total_audio_samples = LengthOf(a[1])
    /\ grain_length_percentage = 50
    /\ grain_density = DEFAULT_GRAIN_DENSITY
    /\ pitch_shift_semitones = 0
    /\ start_position_percentage = 0
    /\ start_position_sample = 0
    /\ current_loop_playhead_position = 0
    /\ active_grains = <<>>
    /\ lock = Free
    /\ pc = [t \in Threads |-> "idle"]
    /\ num_frames = 0
    /\ region = NoRegion
    /\ sas_arg = NoArg
    /\ view = [t \in {Audio, Gui} |-> "none"]
    /\ out = NoOut
    /\ panel = NoPanel
    /\ player = NewPlayer
    /\ callback = NoCallback

\* Lines 181-196 for a loaded source, line 196 giving the region.
ChainRequest(n) ==
    /\ pc[Audio] = "idle"
    /\ lock = Free
    /\ lock' = Audio
    /\ num_frames' = n
    /\ region' = LoopRegion(start_position_sample, total_audio_samples,
                            grain_length_percentage)
    /\ pc' = [pc EXCEPT ![Audio] = "gen_schedule"]
    /\ view' = [view EXCEPT ![Audio] = "loaded"]
    /\ out' = NoOut
    /\ UNCHANGED <<engine, sas_arg>>
    /\ UNCHANGED peripherals

ChainNext ==
    \/ \E n \in 0..MaxChainFrames : ChainRequest(n)
    \/ GenerateSchedule
    \/ GenerateMix
    \/ \E percentage \in GrainLengthArgs : SetGrainLengthPercentage(percentage)
    \/ \E density \in DensityArgs : SetGrainDensity(density)
    \/ \E percentage \in StartPositionArgs : SetStartPositionPercentage(percentage)

ChainSpec == ChainInit /\ [][ChainNext]_vars

-----------------------------------------------------------------------------
\* FirstSpec is the first request made after set_audio_source loaded a source
\* and the setters chose the parameters: the pool is empty and the playhead 0.
FirstInit ==
    /\ \E a \in BodySources :
          /\ audio_data = a[1]
          /\ sample_rate = a[2]
          /\ total_audio_samples = LengthOf(a[1])
    /\ grain_length_percentage \in GrainLengthValues
    /\ grain_density \in BodyDensities(sample_rate)
    /\ pitch_shift_semitones \in PitchArgs
    /\ start_position_percentage \in StartPositionValues
    /\ start_position_sample =
           CalculateStartPositionSample(audio_data, total_audio_samples,
                                        start_position_percentage)
    /\ current_loop_playhead_position = 0
    /\ active_grains = <<>>
    /\ lock = Free
    /\ pc = [t \in Threads |-> "idle"]
    /\ num_frames = 0
    /\ region = NoRegion
    /\ sas_arg = NoArg
    /\ view = [t \in {Audio, Gui} |-> "none"]
    /\ out = NoOut
    /\ panel = NoPanel
    /\ player = NewPlayer
    /\ callback = NoCallback

\* Lines 181-196 for a loaded source, no request having returned before.
FirstRequest(n) ==
    /\ out = NoOut
    /\ ChainRequest(n)

FirstNext ==
    \/ \E n \in 0..MaxBodyFrames : FirstRequest(n)
    \/ GenerateSchedule
    \/ GenerateMix

FirstSpec == FirstInit /\ [][FirstNext]_vars

-----------------------------------------------------------------------------
\* GuiSpec is the control path of the main window: MainWindow.__init__ builds
\* the engine, the ControlsPanel and then the signal connections, after which
\* the user turns the knobs.  Everything runs on the control thread.  The
\* pitch and volume knobs are left out: they drive no parameter named here.

Knobs == {"start_position", "grain_size", "grain_density"}

\* create_knob_column(label, min_val, max_val, initial_val)
KnobMin(knob) == IF knob = "start_position" THEN 0 ELSE 1

KnobMax(knob) == 100

KnobInitial(knob) ==
    CASE knob = "start_position" -> 0
      [] knob = "grain_size" -> 50
      [] knob = "grain_density" -> 2

\* int(delta_y * sensitivity) of one mouse move
KnobChanges == {-50, -10, 10, 50}

\* Knob.setValue takes the value if it is in range and new.
SetValueAccepts(knob, value) ==
    /\ KnobMin(knob) <= value
    /\ value <= KnobMax(knob)
    /\ panel[knob] # value

\* The engine method each *_changed_signal is connected to.
ConnectedSetter(knob, value) ==
    CASE knob = "start_position" -> SetStartPositionPercentageLocked(value)
      [] knob = "grain_size" -> SetGrainLengthPercentageLocked(value)
      [] knob = "grain_density" -> SetGrainDensityLocked(value)

\* ControlsPanel.__init__: the knobs get their initial values and the
\* *_changed_signal emissions of lines 125-129 find no receiver, MainWindow
\* connecting them only after the panel is built.
BuildControlsPanel ==
    /\ panel.stage = "none"
    /\ panel' = [stage |-> "built",
                 start_position |-> KnobInitial("start_position"),
                 grain_size |-> KnobInitial("grain_size"),
                 grain_density |-> KnobInitial("grain_density")]
    /\ UNCHANGED <<engine, lock, pc, num_frames, region, sas_arg, view, out,
                   player, callback>>

\* MainWindow._connect_signals: from now on a knob's signal calls its setter.
ConnectSignals ==
    /\ panel.stage = "built"
    /\ panel' = [panel EXCEPT !.stage = "connected"]
    /\ UNCHANGED <<engine, lock, pc, num_frames, region, sas_arg, view, out,
                   player, callback>>

\* Knob.mouseMoveEvent: the clamped new value goes to setValue, whose
\* valueChanged reaches _update_*, the *_changed_signal and the engine.
MouseMove(knob, change) ==
    /\ panel.stage = "connected"
    /\ pc[Ctl] = "idle"
    /\ LET new_value == Max(KnobMin(knob), Min(KnobMax(knob), panel[knob] + change))
       IN  IF SetValueAccepts(knob, new_value)
           THEN /\ panel' = [panel EXCEPT ![knob] = new_value]
                /\ ConnectedSetter(knob, new_value)
                /\ UNCHANGED <<player, callback>>
           ELSE UNCHANGED vars

GuiNext ==
    \/ BuildControlsPanel
    \/ ConnectSignals
    \/ \E knob \in Knobs, change \in KnobChanges : MouseMove(knob, change)

GuiSpec == Init /\ [][GuiNext]_vars

-----------------------------------------------------------------------------
\* PlayerSpec is the AudioPlayer around the engine: the control thread loads
\* sources and calls play, stop and reset_playback, and the stream's thread
\* runs _audio_callback, which calls generate_audio_buffer, while the viewer
\* thread asks for the loop region.  The volume factor of line 55 and the
\* progress signal of line 72 are left out.

\* Most playback_started and playback_stopped signals recorded.
MaxSignals == 4

\* Largest playback position from which a callback is still followed.
MaxPosition == 5

\* frame_count of a callback (frames_per_buffer is positive).
CallbackFrames == 1..MaxFrames

NeverPlaying(p) == FALSE

\* Line 82 of play: if self._is_playing
AlreadyPlaying(p) == p.is_playing

Emitted(p, signal) == Append(p.signals, signal)

\* Everything but the player, the Ctl position and the last event.
PlayerFrame ==
    /\ out' = NoOut
    /\ UNCHANGED <<engine, lock, num_frames, region, sas_arg, view, panel>>

\* play, lines 82-92: nothing if playing or without audio data; else mark
\* playing and emit playback_started.
Play ==
    /\ pc[Ctl] = "idle"
    /\ Len(player.signals) + 2 <= MaxSignals
    /\ IF AlreadyPlaying(player) \/ AudioAbsent(audio_data)
       THEN UNCHANGED <<player, pc>>
       ELSE /\ player' = [player EXCEPT !.is_playing = TRUE,
                                        !.signals = Emitted(player, "started")]
            /\ pc' = [pc EXCEPT ![Ctl] = "play_open"]
    /\ UNCHANGED callback
    /\ PlayerFrame

\* play, lines 94-111: open and start the stream, which a sample rate that is
\* not positive, or the device, can refuse; then the player is marked stopped
\* again and playback_stopped is emitted.
PlayOpen ==
    /\ pc[Ctl] = "play_open"
    /\ \E opened \in IF RateInvalid(sample_rate) THEN {FALSE} ELSE BOOLEAN :
          IF opened
          THEN /\ player' = [player EXCEPT !.stream = "open"]
               /\ callback' = NoCallback
          ELSE /\ player' = [player EXCEPT !.is_playing = FALSE,
                                           !.signals = Emitted(player, "stopped"),
                                           !.stream = "none"]
               /\ UNCHANGED callback
    /\ pc' = [pc EXCEPT ![Ctl] = "idle"]
    /\ PlayerFrame

\* stop, lines 117-123: nothing if not playing; else mark stopped and emit
\* playback_stopped.  With a stream, go on to close it.
StopBegin(closing, done) ==
    IF ~player.is_playing
    THEN /\ pc' = [pc EXCEPT ![Ctl] = done]
         /\ UNCHANGED player
    ELSE /\ player' = [player EXCEPT !.is_playing = FALSE,
                                     !.signals = Emitted(player, "stopped")]
         /\ pc' = [pc EXCEPT ![Ctl] = IF player.stream # "none" THEN closing ELSE done]

Stop ==
    /\ pc[Ctl] = "idle"
    /\ StopBegin("stop_close", "idle")
    /\ UNCHANGED callback
    /\ PlayerFrame

\* stop, lines 125-137: stop_stream waits for the callback in progress; the
\* stream is closed and forgotten.
StopClose ==
    /\ pc[Ctl] \in {"stop_close", "reset_close"}
    /\ ~callback.active
    /\ player' = [player EXCEPT !.stream = "none"]
    /\ pc' = [pc EXCEPT ![Ctl] = IF pc[Ctl] = "stop_close" THEN "idle" ELSE "reset_pos"]
    /\ UNCHANGED callback
    /\ PlayerFrame

\* The callback is inside "with self._pos_lock" (lines 59-67).
PosLocked == pc[Audio] \in {"cb_chk_data", "cb_chk_rate", "cb_len"}

\* reset_playback, lines 160-161: stop if playing.
ResetPlayback ==
    /\ pc[Ctl] = "idle"
    /\ StopBegin("reset_close", "reset_pos")
    /\ UNCHANGED callback
    /\ PlayerFrame

\* reset_playback, lines 163-164: under the position lock, position = 0.
ResetPosition ==
    /\ pc[Ctl] = "reset_pos"
    /\ ~PosLocked
    /\ player' = [player EXCEPT !.position = 0]
    /\ pc' = [pc EXCEPT ![Ctl] = "idle"]
    /\ UNCHANGED callback
    /\ PlayerFrame

\* The callback returns (status) or lets an exception through.
CallbackEnds(status, data) ==
    /\ callback' = [callback EXCEPT !.active = FALSE, !.data = data,
                                     !.result = status, !.seen = None]
    /\ pc' = [pc EXCEPT ![Audio] = "idle"]

\* The stream calls back until a callback returns paComplete or raises.
StreamCalling == player.stream = "open" /\ callback.result \in {"none", "continue"}

\* _audio_callback, lines 53-54 and 76: playing, call generate_audio_buffer;
\* not playing, return zeros and paComplete.
CallbackEnter(frame_count) ==
    /\ StreamCalling
    /\ ~callback.active
    /\ pc[Audio] = "idle"
    /\ player.position <= MaxPosition
    /\ IF player.is_playing
       THEN /\ callback' = [active |-> TRUE, frame_count |-> frame_count,
                            data |-> NoBuffer, result |-> "none",
                            seen |-> audio_data]
            /\ GenerateEnter(frame_count)
            /\ UNCHANGED <<player, panel>>
       ELSE /\ callback' = [active |-> FALSE, frame_count |-> frame_count,
                            data |-> <<Zeros(frame_count), 1>>,
                            result |-> "complete", seen |-> None]
            /\ out' = NoOut
            /\ UNCHANGED <<engine, lock, pc, num_frames, region, sas_arg, view,
                           player, panel>>

\* What the callback's steps leave alone.
CallbackFrame ==
    /\ out' = NoOut
    /\ UNCHANGED <<engine, lock, num_frames, region, sas_arg, view, panel>>

\* Lines 59-60: take the position lock, position += frame_count.
CallbackAdd ==
    /\ pc[Audio] = "cb_add"
    /\ player' = [player EXCEPT !.position = @ + callback.frame_count]
    /\ pc' = [pc EXCEPT ![Audio] = "cb_chk_data"]
    /\ UNCHANGED callback
    /\ CallbackFrame

\* Line 64, first operand: the engine's _audio_data is not None (read without
\* the engine's lock).
CallbackCheckData ==
    /\ pc[Audio] = "cb_chk_data"
    /\ pc' = [pc EXCEPT ![Audio] = IF AudioAbsent(audio_data) THEN "cb_return"
                                   ELSE "cb_chk_rate"]
    /\ UNCHANGED <<player, callback>>
    /\ CallbackFrame

\* Line 64, second operand: the engine's _sample_rate > 0.
CallbackCheckRate ==
    /\ pc[Audio] = "cb_chk_rate"
    /\ pc' = [pc EXCEPT ![Audio] = IF RateInvalid(sample_rate) THEN "cb_return"
                                   ELSE "cb_len"]
    /\ UNCHANGED <<player, callback>>
    /\ CallbackFrame

\* Lines 65-67: len() of the engine's array as it is now, a TypeError if it
\* has become None; the position wraps if the array has samples.
CallbackWrap ==
    /\ pc[Audio] = "cb_len"
    /\ IF AudioAbsent(audio_data)
       THEN /\ CallbackEnds("TypeError", NoBuffer)
            /\ UNCHANGED player
       ELSE /\ pc' = [pc EXCEPT ![Audio] = "cb_return"]
            /\ player' = [player EXCEPT !.position =
                             IF LengthOf(audio_data) > 0
                             THEN @ % LengthOf(audio_data) ELSE @]
            /\ UNCHANGED callback
    /\ CallbackFrame

\* Lines 71-74: return the buffer with paContinue.
CallbackReturn ==
    /\ pc[Audio] = "cb_return"
    /\ CallbackEnds("continue", callback.data)
    /\ UNCHANGED player
    /\ CallbackFrame

PlayerNext ==
    \/ \E arg \in SourceArgs : SetAudioSourceData(arg)
    \/ SetAudioSourceRate
    \/ SetAudioSourceTotal
    \/ SetAudioSourceReset
    \/ Play
    \/ PlayOpen
    \/ Stop
    \/ StopClose
    \/ ResetPlayback
    \/ ResetPosition
    \/ \E frame_count \in CallbackFrames : CallbackEnter(frame_count)
    \/ GenerateCheckData
    \/ GenerateCheckRate
    \/ GenerateCheckTotal
    \/ GenerateAcquire
    \/ GetRegionCall
    \/ \E t \in {Audio, Gui} : GetRegionCheckData(t)
    \/ \E t \in {Audio, Gui} : GetRegionCheckRate(t)
    \/ \E t \in {Audio, Gui} : GetRegionCheckTotal(t)
    \/ \E t \in {Audio, Gui} : GetRegionLocked(t)
    \/ GenerateSchedule
    \/ GenerateMix
    \/ CallbackAdd
    \/ CallbackCheckData
    \/ CallbackCheckRate
    \/ CallbackWrap
    \/ CallbackReturn

PlayerSpec == Init /\ [][PlayerNext]_vars

----------------------------------------------------------------------------
\* Properties

\* A thread is at "with self._lock" and has not got the lock.
LockWaiting(t) == pc[t] \in {"gen_acquire", "glr_acquire"}

\* generate_audio_buffer waits for the lock it holds itself.
SelfBlocked == pc[Audio] = "glr_acquire" /\ lock = Audio

GenerateReturned == out.op = "generate_audio_buffer"

AllZero(buf) == \A i \in 1..Len(buf) : buf[i] = 0

\* C1: every call eventually returns, never blocked forever on the engine's
\* lock: whenever a call waits for the lock, the thread that holds the lock is
\* not itself waiting for it.
C1_NoCallBlocksForever ==
    \A t \in {Audio, Gui} :
        LockWaiting(t) => \A h \in {Audio, Gui} : lock = h => ~LockWaiting(h)

\* C2: a generate_audio_buffer call made while no source is loaded (and no
\* set_audio_source runs during it) takes the early return: each of its steps
\* leaves the engine state unchanged, it never goes on to the lock, and it
\* returns exactly num_frames zeros.
C2_NoSourceReturnsZeros ==
    [][ (view[Audio] = "unloaded" /\ pc'[Audio] # pc[Audio]) =>
           /\ pc'[Audio] \in {"gen_chk_rate", "gen_chk_total", "idle"}
           /\ engine' = engine
           /\ lock' = lock
           /\ pc'[Audio] = "idle" =>
                 /\ out'.op = "generate_audio_buffer"
                 /\ out'.kind = "buffer"
                 /\ Len(out'.val) = num_frames
                 /\ AllZero(out'.val) ]_vars

C2_Witness ==
    /\ GenerateReturned
    /\ out.view = "unloaded"
    /\ out.kind = "buffer"
    /\ out.arg >= 1
    /\ Len(out.val) = out.arg

\* C3: generate_audio_buffer with a source loaded returns normally for every
\* num_frames >= 0: the call is never blocked for good, raises nothing, and
\* its buffer has exactly num_frames samples.
C3_LoadedCallReturnsBuffer ==
    /\ view[Audio] = "loaded" => ~SelfBlocked
    /\ (GenerateReturned /\ out.view = "loaded") =>
           (out.kind = "buffer" /\ Len(out.val) = out.arg)

\* C4: when set_audio_source returns the pool is empty and the playhead is 0,
\* and a generate_audio_buffer call on the loaded source that finds the pool
\* empty and schedules no grain returns (all zeros) instead of stopping for
\* good.
C4_SourceSwapResetsThenSilence ==
    [][ /\ (pc[Ctl] = "sas_reset" /\ pc'[Ctl] = "idle") =>
               (active_grains' = <<>> /\ current_loop_playhead_position' = 0)
        /\ (view'[Audio] = "loaded" /\ active_grains' = <<>>) => ~SelfBlocked'
        /\ (GenerateReturned' /\ out'.view = "loaded" /\ active_grains = <<>>
              /\ active_grains' = <<>>) =>
               (out'.kind = "buffer" /\ AllZero(out'.val)) ]_vars

\* C5: outside set_audio_source's critical section, every grain in the pool
\* was extracted from the array that is installed now: it names that array
\* and holds that array's windowed samples.
C5_GrainsFromInstalledSource ==
    lock # Ctl =>
        \A k \in 1..Len(active_grains) :
            /\ active_grains[k].src = audio_data
            /\ active_grains[k].data =
                   ExtractGrain(audio_data, active_grains[k].start,
                                active_grains[k].total_samples).data

C5_Witness ==
    /\ active_grains # <<>>
    /\ lock = Free
    /\ pc[Audio] = "idle"
    /\ pc[Ctl] = "idle"

\* C6: a generate_audio_buffer call that ends while the installed source is
\* not loaded (absent, zero-length, or sample rate <= 0), whatever
\* set_audio_source did during the call, returns a silent buffer of the
\* requested size and raises nothing.
C6_UnloadedSourceGivesSilence ==
    (GenerateReturned /\ ~out.loaded) =>
        (out.kind = "buffer" /\ Len(out.val) = out.arg /\ AllZero(out.val))

\* C7: the parameters stay in range in every state (grain length percentage
\* in 1..100, start position percentage in 0..100, density >= 1), and each
\* setter stores its argument clamped to the range: below the range the lower
\* end, above it the upper end, inside it the argument.
ParametersInRange ==
    /\ grain_length_percentage \in 1..100
    /\ start_position_percentage \in 0..100
    /\ grain_density >= 1

C7_SettersClamp ==
    [][ /\ ParametersInRange
        /\ ParametersInRange'
        /\ \A p \in GrainLengthArgs :
              SetGrainLengthPercentage(p) =>
                  grain_length_percentage' =
                      (IF p < 1 THEN 1 ELSE IF p > 100 THEN 100 ELSE p)
        /\ \A p \in StartPositionArgs :
              SetStartPositionPercentage(p) =>
                  start_position_percentage' =
                      (IF p < 0 THEN 0 ELSE IF p > 100 THEN 100 ELSE p)
        /\ \A d \in DensityArgs :
              SetGrainDensity(d) => grain_density' = (IF d < 1 THEN 1 ELSE d) ]_vars

C7_Witness ==
    /\ start_position_percentage = 100
    /\ grain_length_percentage = 1
    /\ grain_density = 1

\* The loop duration of section 4.2, from the source length and the start and
\* length percentages in effect.
DurationOf(total, start_percentage, length_percentage) ==
    LET start == Max(0, Min((total * start_percentage) \div 100, total - 1))
        length == Max(1, (total * length_percentage) \div 100)
        end == Min(start + length, total)
    IN  Max(1, end - start)

CurrentDuration ==
    DurationOf(total_audio_samples, start_position_percentage, grain_length_percentage)

\* C8: a generate_audio_buffer request on a loaded source that returns leaves
\* the playhead at (old playhead + num_frames) mod duration_samples, which is
\* in 0..duration_samples-1, duration_samples being the loop duration of
\* that request.
C8_PlayheadWrapsInDuration ==
    [][ /\ (pc[Audio] = "gen_schedule" /\ view[Audio] = "loaded"
              /\ pc'[Audio] = "gen_mix") =>
               /\ current_loop_playhead_position' =
                      (current_loop_playhead_position + num_frames) % CurrentDuration
               /\ current_loop_playhead_position' \in 0..(CurrentDuration - 1)
        /\ (pc[Audio] = "gen_mix" /\ view[Audio] = "loaded"
              /\ pc'[Audio] = "idle") =>
               /\ current_loop_playhead_position' = current_loop_playhead_position
               /\ current_loop_playhead_position' \in 0..(CurrentDuration - 1) ]_vars

C8_Witness ==
    /\ GenerateReturned
    /\ out.view = "loaded"
    /\ out.kind = "buffer"
    /\ out.arg = 1
    /\ CurrentDuration = 2
    /\ current_loop_playhead_position = 0

\* C9: in every state with a source loaded the stored playhead is in
\* 0..duration_samples-1 for the loop region of the current source and
\* parameters.
C9_PlayheadInCurrentLoop ==
    Loaded => current_loop_playhead_position \in 0..(CurrentDuration - 1)

\* C10: with a source loaded, repeated generate_audio_buffer requests of a
\* fixed num_frames >= 1 at a fixed density eventually trigger a grain.  The
\* count of one request is a function of the density, num_frames and the
\* sample rate alone, so the requests trigger a grain eventually exactly when
\* one of them does.
C10_LowDensityTriggersGrain ==
    (pc[Audio] = "gen_acquire" /\ view[Audio] = "loaded" /\ num_frames >= 1) =>
        GrainsToTrigger(grain_density, num_frames, sample_rate) >= 1

\* The grain count of section 4.3 for a positive sample rate: the floor of
\* density * frames / rate, 1 when that floor is 0 and one grain interval fits
\* in the request, 0 for a density that is not positive.
SpecifiedGrainCount(density, frames, rate) ==
    IF density <= 0
    THEN 0
    ELSE LET floor == (density * frames) \div rate
         IN  IF floor = 0 /\ rate <= frames * density THEN 1 ELSE floor

\* A scheduling step of a request on a loaded source.
SchedulingStep ==
    pc[Audio] = "gen_schedule" /\ view[Audio] = "loaded" /\ pc'[Audio] = "gen_mix"

\* C11: a generate_audio_buffer request on a loaded source appends exactly
\* the specified number of grains to the pool: floor(density * num_frames /
\* sample_rate), or the forced single grain, or none for density <= 0.
C11_GrainCountIsFloor ==
    [][ SchedulingStep =>
           Len(active_grains') =
               Len(active_grains)
                 + SpecifiedGrainCount(grain_density, num_frames, sample_rate) ]_vars

C13_SettersIdempotent ==
    [][ /\ \A p \in GrainLengthArgs :
              SetGrainLengthPercentage(p) =>
                  /\ engine' = AfterSetGrainLengthPercentage(engine, p)
                  /\ AfterSetGrainLengthPercentage(engine', p) = engine'
        /\ \A d \in DensityArgs :
              SetGrainDensity(d) =>
                  /\ engine' = AfterSetGrainDensity(engine, d)
                  /\ AfterSetGrainDensity(engine', d) = engine'
        /\ \A t \in PitchArgs :
              SetPitchShift(t) =>
                  /\ engine' = AfterSetPitchShift(engine, t)
                  /\ AfterSetPitchShift(engine', t) = engine'
        /\ \A p \in StartPositionArgs :
              SetStartPositionPercentage(p) =>
                  /\ engine' = AfterSetStartPositionPercentage(engine, p)
                  /\ AfterSetStartPositionPercentage(engine', p) = engine' ]_vars

C13_Witness ==
    /\ grain_length_percentage = 1
    /\ grain_density = 1
    /\ pitch_shift_semitones = 7
    /\ start_position_percentage = 58
    /\ active_grains # <<>>

\* The loop region of section 4.2 for a source of total > 0 samples.
SpecifiedRegion(total, start_percentage, length_percentage) ==
    LET start == Max(0, Min((total * start_percentage) \div 100, total - 1))
        length == Max(1, (total * length_percentage) \div 100)
    IN  <<start, Min(start + length, total)>>

RegionReturned == out.op = "get_current_loop_region"

\* C14: get_current_loop_region changes no engine field; called with no
\* source loaded it returns (0, 0); called with a source loaded it returns
\* the start and end of section 4.2 for the sample count and percentages in
\* effect, with 0 <= start < end <= total.
C14_LoopRegionFormula ==
    [][ /\ pc'[Gui] # pc[Gui] => engine' = engine
        /\ (RegionReturned' /\ out'.view = "unloaded") => out'.val = <<0, 0>>
        /\ (RegionReturned' /\ out'.view = "loaded") =>
               /\ out'.val = SpecifiedRegion(total_audio_samples,
                                             start_position_percentage,
                                             grain_length_percentage)
               /\ 0 <= out'.val[1]
               /\ out'.val[1] < out'.val[2]
               /\ out'.val[2] <= total_audio_samples ]_vars

\* C15: in a request on a loaded source, with the length percentage in
\* 1..100 and the start percentage in 0..100, the grain length in samples and
\* the loop duration in samples are both at least 1, and the grain length is
\* at most the sample count.
C15_LengthsAtLeastOne ==
    (pc[Audio] = "gen_schedule" /\ view[Audio] = "loaded") =>
        /\ grain_length_percentage \in 1..100
        /\ start_position_percentage \in 0..100
        /\ GrainLengthSamples(total_audio_samples, grain_length_percentage) >= 1
        /\ GrainLengthSamples(total_audio_samples, grain_length_percentage)
               <= total_audio_samples
        /\ LoopDuration(region) >= 1
        /\ region[2] - region[1] >= 1

C15_Witness ==
    /\ pc[Audio] = "gen_schedule"
    /\ view[Audio] = "loaded"
    /\ start_position_percentage = 100
    /\ grain_length_percentage = 1
    /\ total_audio_samples < 100

\* The grains a scheduling step appends to the pool.
Appended == SubSeq(active_grains', Len(active_grains) + 1, Len(active_grains'))

\* C16: every grain a request extracts has exactly grain_length_samples
\* samples and cursor 0, and its k-th sample is read at index
\* (source_start_index + k) mod total_samples, which is in 0..total_samples-1,
\* whether source_start_index is negative, inside the source or beyond it.
C16_ExtractionWraps ==
    [][ SchedulingStep =>
           \A g \in 1..Len(Appended) :
               LET grain == Appended[g]
                   length == GrainLengthSamples(total_audio_samples,
                                                grain_length_percentage)
               IN  /\ Len(grain.data) = length
                   /\ grain.total_samples = length
                   /\ grain.current_sample = 0
                   /\ \A k \in 0..(length - 1) :
                          LET index == (grain.start + k) % total_audio_samples
                          IN  /\ index \in 0..(total_audio_samples - 1)
                              /\ grain.data[k + 1] =
                                     SourceData(audio_data)[index + 1]
                                         * HannWindow(length)[k + 1] ]_vars

C16_Witness ==
    /\ pc[Audio] = "gen_mix"
    /\ view[Audio] = "loaded"
    /\ \E g \in 1..Len(active_grains) :
          /\ active_grains[g].current_sample = 0
          /\ active_grains[g].start < 0
          /\ active_grains[g].total_samples >= 3

\* C17: a buffer generate_audio_buffer returns is either all zeros, or the
\* accumulator divided by its peak magnitude: the divisor is positive, every
\* sample is in [-1, 1] and some sample has magnitude exactly 1.
C17_NormalizedOrSilent ==
    (GenerateReturned /\ out.kind = "buffer") =>
        /\ out.den > 0
        /\ Len(out.val) = out.arg
        /\ \/ AllZero(out.val)
           \/ /\ \A i \in 1..Len(out.val) : Abs(out.val[i]) <= out.den
              /\ \E i \in 1..Len(out.val) : Abs(out.val[i]) = out.den

C17_Witness ==
    /\ GenerateReturned
    /\ out.kind = "buffer"
    /\ out.arg = 2
    /\ out.den > 1
    /\ Abs(out.val[1]) # Abs(out.val[2])
    /\ out.val[1] # 0
    /\ out.val[2] # 0

\* C18: generate_audio_buffer does not hold the engine lock while it extracts
\* and windows grains, mixes and normalizes: at the scheduling and mixing
\* steps the audio thread is not the lock's holder.
C18_MixingOutsideLock ==
    pc[Audio] \in {"gen_schedule", "gen_mix"} => lock # Audio

\* The granulation parameters a pass reads for scheduling.
SchedulingParameters ==
    <<grain_length_percentage, grain_density, start_position_percentage,
      start_position_sample>>

\* A pass of generate_audio_buffer is at or between its parameter reads
\* (lines 191 to 236).
ReadingParameters ==
    pc[Audio] \in {"glr_chk_data", "glr_chk_rate", "glr_chk_total", "glr_acquire",
                   "gen_schedule"}

\* C19: the parameters one pass of generate_audio_buffer reads for scheduling
\* come from a single engine state: from its first parameter read to its last
\* no step of another thread changes the grain length percentage, the
\* density, the start percentage or the start sample.
C19_ParametersFromOneState ==
    [][ ReadingParameters => SchedulingParameters' = SchedulingParameters ]_vars

C19_Witness ==
    /\ pc[Audio] = "gen_mix"
    /\ lock = Audio
    /\ pc[Ctl] = "idle"
    /\ grain_density = 1
    /\ grain_length_percentage = 100
    /\ active_grains # <<>>

\* C20: between generate_audio_buffer calls every grain in the pool has
\* 0 < cursor < length.
C20_PoolCursorsInside ==
    pc[Audio] = "idle" =>
        \A g \in 1..Len(active_grains) :
            /\ 0 < active_grains[g].current_sample
            /\ active_grains[g].current_sample < active_grains[g].total_samples

\* A mixing step of a request: the pool is mixed, pruned and stored.
MixingStep == pc[Audio] = "gen_mix" /\ pc'[Audio] = "idle"

\* The ways of finding the grains of the sequence after, in their order, among
\* the grains of the sequence before.
Embeddings(before, after) ==
    { f \in [1..Len(after) -> 1..Len(before)] :
        \A i, j \in 1..Len(after) : i < j => f[i] < f[j] }

\* The grain later is the grain earlier, moved forward: same samples, same
\* length, cursor not smaller.
MovedForward(earlier, later) ==
    /\ later.data = earlier.data
    /\ later.total_samples = earlier.total_samples
    /\ later.current_sample >= earlier.current_sample

\* C21: a grain only moves forward.  A scheduling step keeps the pool as it
\* is and appends grains with cursor 0; a mixing step leaves a pool made of
\* grains of the pool before it, each with the same samples and length and a
\* cursor not smaller, and adds none; no other step (a setter changing grain
\* length, start position or density among them) changes the pool, so a
\* grain that was removed does not come back.
C21_GrainsMoveForward ==
    [][ /\ (pc[Audio] = "gen_schedule" /\ pc'[Audio] = "gen_mix") =>
               /\ Len(active_grains') >= Len(active_grains)
               /\ SubSeq(active_grains', 1, Len(active_grains)) = active_grains
               /\ \A g \in 1..Len(Appended) : Appended[g].current_sample = 0
        /\ MixingStep =>
               \E f \in Embeddings(active_grains, active_grains') :
                   \A i \in 1..Len(active_grains') :
                       MovedForward(active_grains[f[i]], active_grains'[i])
        /\ pc[Audio] = "idle" => active_grains' = active_grains ]_vars

C21_Witness ==
    /\ pc[Audio] = "idle"
    /\ \E g \in 1..Len(active_grains) :
          /\ active_grains[g].current_sample >= 2
          /\ active_grains[g].total_samples #
                 GrainLengthSamples(total_audio_samples, grain_length_percentage)
    /\ start_position_percentage # 0
    /\ grain_density # DEFAULT_GRAIN_DENSITY

RECURSIVE LongestOf(_, _)
LongestOf(grains, k) ==
    IF k = 0 THEN 0 ELSE Max(LongestOf(grains, k - 1), grains[k].total_samples)

\* The largest grain length among the grains of the pool, every one of them
\* a grain length in effect since the source was set.
LongestAlive == LongestOf(active_grains, Len(active_grains))

\* The largest density in effect since the source was set: a chain starts at
\* the constructor's density, and no setter argument in use exceeds it.
LargestDensity == Max(DEFAULT_GRAIN_DENSITY, grain_density)

\* C22: between requests the number of grains in the pool is at most
\* max density * max grain_length_samples / sample_rate, the maxima taken over
\* the values in effect since the source was set, whatever num_frames the
\* requests had and whatever the setters changed in between.
C22_PoolBounded ==
    pc[Audio] = "idle" =>
        Len(active_grains) * sample_rate <= LargestDensity * LongestAlive

C22_Witness ==
    /\ pc[Audio] = "idle"
    /\ Len(active_grains) = 3
    /\ grain_density = 1
    /\ grain_length_percentage = 1

\* C23: set_pitch_shift has no effect on generation: with the same random
\* draws a request appends the same grains whatever the pitch shift is, the
\* playhead and the number of grains are those of the pitch-free formulas,
\* mixing gives the buffer and the survivors of the pool alone, and a
\* set_pitch_shift call leaves the playhead and the pool as they were.
C23_PitchShiftHasNoEffect ==
    [][ /\ SchedulingStep =>
              /\ \A semitones \in PitchArgs : \A g \in 1..Len(Appended) :
                     Appended[g] =
                         PitchShifted(
                             ExtractGrain(audio_data, Appended[g].start,
                                          GrainLengthSamples(total_audio_samples,
                                                             grain_length_percentage)),
                             semitones)
              /\ Len(Appended) = GrainsToTrigger(grain_density, num_frames, sample_rate)
              /\ current_loop_playhead_position' =
                     AdvancePlayhead(current_loop_playhead_position, num_frames,
                                     LoopDuration(region))
        /\ MixingStep =>
              /\ active_grains' = Survivors(active_grains, num_frames)
              /\ out'.val \in {<<>>, Zeros(num_frames),
                                Accumulate(active_grains, num_frames)}
        /\ pitch_shift_semitones' # pitch_shift_semitones =>
              /\ active_grains' = active_grains
              /\ current_loop_playhead_position' = current_loop_playhead_position
      ]_vars

C23_Witness ==
    /\ GenerateReturned
    /\ out.kind = "buffer"
    /\ ~AllZero(out.val)
    /\ pitch_shift_semitones # 0
    /\ \E g \in 1..Len(active_grains) :
          /\ active_grains[g].current_sample = out.arg
          /\ active_grains[g].total_samples >= 3

\* take = min(num_frames, length - cursor) of the k-th grain of the pool.
Take(k) ==
    Min(num_frames, active_grains[k].total_samples - active_grains[k].current_sample)

\* What the first k grains of the pool put at position i of the accumulator:
\* sample cursor + i - 1 (counted from 0) of each grain with take >= i, every
\* addition stored as float32.
RECURSIVE TakenAt(_, _)
TakenAt(i, k) ==
    IF k = 0 THEN 0
    ELSE Float32(TakenAt(i, k - 1) +
                 (IF i <= Take(k)
                  THEN active_grains[k].data[active_grains[k].current_sample + i]
                  ELSE 0))

StillPlaying(grain) == grain.current_sample < grain.total_samples

\* C24: in one request every active grain adds its samples cursor ..
\* cursor + take - 1 to positions 0 .. take - 1 of the accumulator and to no
\* other position, take = min(num_frames, length - cursor), and its cursor
\* advances by exactly take (the grain is dropped once the cursor reaches the
\* length); the buffer returned is that accumulator, normalized or silenced.
C24_GrainContribution ==
    [][ MixingStep =>
          /\ active_grains' =
                 SelectSeq([k \in 1..Len(active_grains) |->
                               [active_grains[k] EXCEPT !.current_sample = @ + Take(k)]],
                           StillPlaying)
          /\ out'.kind = "buffer" =>
                 \/ out'.val = [i \in 1..num_frames |-> TakenAt(i, Len(active_grains))]
                 \/ /\ AllZero(out'.val)
                    /\ \A i \in 1..num_frames : TakenAt(i, Len(active_grains)) = 0
      ]_vars

C24_Witness ==
    /\ GenerateReturned
    /\ out.kind = "buffer"
    /\ out.arg = 2
    /\ out.val[1] # 0
    /\ out.val[2] # 0
    /\ Len(active_grains) >= 2
    /\ \E g \in 1..Len(active_grains) : active_grains[g].current_sample >= 3

\* The grain has frames left after the num_frames of the request being mixed.
OutlastsRequest(grain) == grain.current_sample + num_frames < grain.total_samples

Fresh == SelectSeq(active_grains, LAMBDA grain : grain.current_sample = 0)

\* Sample i (counted from 1) of the first k fresh grains, summed in float32.
RECURSIVE FreshAt(_, _)
FreshAt(i, k) ==
    IF k = 0 THEN 0
    ELSE Float32(FreshAt(i, k - 1) +
                 (IF i <= Fresh[k].total_samples THEN Fresh[k].data[i] ELSE 0))

\* What lines 303-307 return for an accumulator.
Normalized(acc) ==
    IF AboveEpsilon(Peak(acc)) THEN <<acc, Peak(acc)>> ELSE <<Zeros(Len(acc)), 1>>

\* The first request mixes the grains it triggered: the accumulator is the
\* sum of their samples from index 0 on, and each of them leaves the request
\* with cursor min(num_frames, length), removed if length <= num_frames.
FreshGrainsMixed ==
    MixingStep =>
        /\ Fresh = active_grains
        /\ out'.kind = "buffer" =>
               <<out'.val, out'.den>> =
                   Normalized([i \in 1..num_frames |-> FreshAt(i, Len(Fresh))])
        /\ active_grains' =
               SelectSeq([k \in 1..Len(Fresh) |->
                             [Fresh[k] EXCEPT !.current_sample =
                                                  Min(num_frames, Fresh[k].total_samples)]],
                         StillPlaying)

\* The buffer the first request returns when the new grains are appended to
\* the pool only after mixing: the mix of the pool as set_audio_source left it.
AppendedAfterMixing == Normalized(Accumulate(<<>>, num_frames))

C27_GrainAnchoredToPlayhead ==
    [][ SchedulingStep =>
          LET L == GrainLengthSamples(total_audio_samples, grain_length_percentage)
              duration_samples == region[2] - region[1]
              anchor == region[1] +
                        ((current_loop_playhead_position + num_frames) % duration_samples)
          IN  /\ duration_samples >= 1
              /\ \A g \in 1..Len(Appended) :
                    /\ \E deviation \in (-(L \div 2))..(L \div 2) :
                          Appended[g].start = anchor + deviation
                    /\ L = 1 => Appended[g].start = anchor
                    /\ Appended[g].start >= region[1] - (L \div 2)
                    /\ Appended[g].start <= region[2] - 1 + (L \div 2)
      ]_vars

C27_Witness ==
    /\ pc[Audio] = "gen_mix"
    /\ current_loop_playhead_position > 0
    /\ region[1] > 0
    /\ \E g \in 1..Len(active_grains) :
          /\ active_grains[g].current_sample = 0
          /\ active_grains[g].total_samples >= 2
          /\ active_grains[g].start =
                 region[2] - 1 + (active_grains[g].total_samples \div 2)

RECURSIVE Gcd(_, _)
Gcd(a, b) == IF b = 0 THEN a ELSE Gcd(b, a % b)

\* The sample val / den in lowest terms.
Lowest(val, den) ==
    LET g == Gcd(Abs(val), den) IN <<val \div g, den \div g>>

\* Two buffers <<val, den>> with the same samples val[i] / den.
SameBuffer(b1, b2) ==
    /\ Len(b1[1]) = Len(b2[1])
    /\ \A i \in 1..Len(b1[1]) : Lowest(b1[1][i], b1[2]) = Lowest(b2[1][i], b2[2])

\* Two pools with the same grains (cursors included) the same number of times.
SameGrains(pool1, pool2) ==
    /\ Len(pool1) = Len(pool2)
    /\ \A i \in 1..Len(pool1) :
          Cardinality({j \in 1..Len(pool1) : pool1[j] = pool1[i]}) =
          Cardinality({j \in 1..Len(pool2) : pool2[j] = pool1[i]})

Shuffled(order) == [k \in 1..Len(active_grains) |-> active_grains[order[k]]]

\* C28: the buffer a request returns and the pool it leaves, as a multiset of
\* grains with their cursors, do not depend on the order of the active
\* grains: every permutation of the pool before the mixing gives the same
\* buffer and the same surviving grains.
C28_OrderIndependent ==
    [][ MixingStep =>
          \A order \in Permutations(1..Len(active_grains)) :
              /\ SameGrains(Survivors(Shuffled(order), num_frames), active_grains')
              /\ out'.kind = "buffer" =>
                     SameBuffer(Normalized(Accumulate(Shuffled(order), num_frames)),
                                <<out'.val, out'.den>>)
      ]_vars

\* The engine fields e2 has in common with e1, all but those numbered in own.
SameBut(e1, e2, own) == \A i \in (1..10) \ own : e2[i] = e1[i]

\* C29: set_grain_length_percentage, set_grain_density and set_pitch_shift
\* each change only their own parameter: the source, the other parameters,
\* the stored start sample, the loop playhead and the pool of active grains
\* are left as they were.
C29_SettersChangeOwnParameter ==
    [][ /\ \A p \in GrainLengthArgs :
              SetGrainLengthPercentage(p) => SameBut(engine, engine', {4})
        /\ \A d \in DensityArgs :
              SetGrainDensity(d) => SameBut(engine, engine', {5})
        /\ \A t \in PitchArgs :
              SetPitchShift(t) => SameBut(engine, engine', {6}) ]_vars

C29_Witness ==
    /\ grain_length_percentage = 100
    /\ grain_density = 1
    /\ pitch_shift_semitones = 7
    /\ start_position_percentage = 0
    /\ current_loop_playhead_position > 0
    /\ \E g \in 1..Len(active_grains) : active_grains[g].current_sample > 0

\* C30: every call of set_start_position_percentage, also one whose
\* clamped argument is the current percentage, puts the loop playhead at 0
\* and stores the start sample of the clamped percentage (inside the source);
\* the pool of active grains, the source and the other parameters are left
\* as they were, so the grains already sounding play on.
C30_StartPositionResetsPlayhead ==
    [][ \A p \in StartPositionArgs :
            SetStartPositionPercentage(p) =>
                /\ current_loop_playhead_position' = 0
                /\ start_position_percentage' = Max(0, Min(100, p))
                /\ start_position_sample' =
                       CalculateStartPositionSample(audio_data, total_audio_samples,
                                                    start_position_percentage')
                /\ start_position_sample' \in 0..(total_audio_samples - 1)
                /\ SameBut(engine, engine', {7, 8, 9}) ]_vars

C30_Witness ==
    /\ start_position_percentage = 58
    /\ start_position_sample > 0
    /\ current_loop_playhead_position = 0
    /\ grain_length_percentage = 50
    /\ grain_density = DEFAULT_GRAIN_DENSITY
    /\ \E g \in 1..Len(active_grains) : active_grains[g].current_sample > 0

\* The start sample of section 4.2 for the source and percentage installed.
SpecifiedStartSample ==
    IF AudioAbsent(audio_data) \/ total_audio_samples = 0 THEN 0
    ELSE Min((total_audio_samples * start_position_percentage) \div 100,
             total_audio_samples - 1)

\* C31: whenever no set_audio_source call is under way, the stored start
\* sample is min(floor(total_samples * start_position_percentage / 100),
\* total_samples - 1) for the source and the percentage installed, and 0 with
\* no source or an empty one: neither set_audio_source nor a setter leaves it
\* stale.
C31_StartSampleConsistent ==
    pc[Ctl] = "idle" => start_position_sample = SpecifiedStartSample

\* The labels of line 137, the check made before the lock is taken.
RegionChecks == {"glr_chk_data", "glr_chk_rate", "glr_chk_total"}

\* What a get_current_loop_region call of thread t hands back at this step.
RegionHandedBack(t) == IF t = Audio THEN region' ELSE out'.val

\* C32: whatever set_audio_source and the setters do meanwhile on another
\* thread, the pair get_current_loop_region returns is (0, 0) from the check
\* of line 137 or is computed, the lock held, from one engine state in which
\* no set_audio_source call is under way: the start sample of that state's
\* source and start percentage, its length percentage and its sample count
\* read together, with 0 <= start <= end <= total_samples of that state.
C32_RegionFromOneState ==
    [][ \A t \in {Audio, Gui} :
          /\ (pc[t] \in RegionChecks /\ pc'[t] \notin RegionChecks \cup {"glr_acquire"}) =>
                 RegionHandedBack(t) = <<0, 0>>
          /\ (pc[t] = "glr_acquire" /\ pc'[t] # "glr_acquire") =>
                 /\ pc[Ctl] = "idle"
                 /\ start_position_sample =
                        CalculateStartPositionSample(audio_data, total_audio_samples,
                                                     start_position_percentage)
                 /\ RegionHandedBack(t)[1] = start_position_sample
                 /\ RegionHandedBack(t)[2] =
                        Min(start_position_sample +
                                Max(1, PercentOfSamples(total_audio_samples,
                                                        grain_length_percentage)),
                            total_audio_samples)
                 /\ 0 <= RegionHandedBack(t)[1]
                 /\ RegionHandedBack(t)[1] <= RegionHandedBack(t)[2]
                 /\ RegionHandedBack(t)[2] <= total_audio_samples
      ]_vars

C32_Witness ==
    /\ RegionReturned
    /\ out.view = "mixed"
    /\ out.val[1] > 0
    /\ out.val[2] > out.val[1]
    /\ out.val[2] = total_audio_samples

\* The main window is constructed: the panel is built and connected.
WindowConstructed == panel.stage = "connected"

\* C33: after construction of the main window and after any sequence of knob
\* changes, the engine's grain length percentage, grain density and start
\* position percentage equal the values shown by their knobs.
C33_EngineShowsKnobValues ==
    WindowConstructed =>
        /\ grain_length_percentage = panel.grain_size
        /\ grain_density = panel.grain_density
        /\ start_position_percentage = panel.start_position

\* The signals emitted so far are started, stopped, started, ...
Alternating(signals) ==
    \A i \in 1..Len(signals) :
        signals[i] = IF i % 2 = 1 THEN "started" ELSE "stopped"

\* C34: over any sequence of play, stop and reset_playback calls (play with
\* no audio loaded, play while playing, stop while stopped and a failed
\* stream open among them) the playback_started and playback_stopped signals
\* strictly alternate beginning with started, and the player is marked
\* playing exactly between a started signal and the next stopped signal.
C34_SignalsAlternate ==
    /\ Alternating(player.signals)
    /\ player.is_playing <=> (Len(player.signals) % 2 = 1)

\* Playing again, the stream open, after an earlier start and stop.
C34_Witness ==
    /\ Len(player.signals) = 3
    /\ player.is_playing
    /\ player.stream = "open"
    /\ pc[Ctl] = "idle"

\* A step in which the stream's callback begins.
CallbackBegins == callback' # callback /\ ~callback.active /\ StreamCalling

\* A step in which a callback that called the engine ends.
CallbackCompletes == callback.active /\ ~callback'.active

\* C35: while the player is playing, each audio callback requests exactly one
\* buffer of frame_count frames from the engine and returns it with the
\* continue status, never blocked for good on the way; while not playing the
\* callback returns frame_count zeros with the complete status, does not
\* invoke the engine and does not advance the playback position, so the
\* engine's fields, pool and playhead among them, stay unchanged.
C35_CallbackPassesOneBuffer ==
    [][ /\ (CallbackBegins /\ player.is_playing) =>
               /\ callback'.active
               /\ pc'[Audio] = "gen_chk_data"
               /\ num_frames' = callback'.frame_count
        /\ (callback.active /\ pc'[Audio] = "gen_chk_data") =>
               pc[Audio] = "gen_chk_data"
        /\ callback'.active => ~SelfBlocked'
        /\ CallbackCompletes =>
               /\ callback'.result = "continue"
               /\ callback'.data = callback.data
               /\ Len(callback'.data[1]) = callback.frame_count
        /\ (CallbackBegins /\ ~player.is_playing) =>
               /\ ~callback'.active
               /\ callback'.result = "complete"
               /\ callback'.data = <<Zeros(callback'.frame_count), 1>>
               /\ pc' = pc
               /\ engine' = engine
               /\ player'.position = player.position
      ]_vars

\* A callback that ran while playing returns, the engine holding then the
\* non-empty array it held when the callback began and no set_audio_source
\* call being under way.
ReturnsOnNonEmptySource ==
    /\ CallbackCompletes
    /\ callback'.result = "continue"
    /\ pc[Ctl] \in OutsideEngine
    /\ audio_data = callback.seen
    /\ LengthOf(audio_data) > 0

\* C36: after every audio callback executed while playing with a non-empty
\* source the playback position is at least 0 and below the number of
\* samples of the engine's source; when reset_playback returns the player is
\* not playing and its position is 0.
C36_PositionInsideSource ==
    [][ /\ ReturnsOnNonEmptySource =>
               /\ 0 <= player'.position
               /\ player'.position < LengthOf(audio_data)
        /\ (pc[Ctl] = "reset_pos" /\ pc'[Ctl] = "idle") =>
               /\ ~player'.is_playing
               /\ player'.position = 0
      ]_vars

====
